---- MODULE Spec2Model ----
(***************************************************************************)
(* A model of the aabel-multihash-rs crate: the PairHasher combinator, its *)
(* BuildPairHasher factory, the keyed SipHasher accumulators it combines   *)
(* and the hash-sequence iterator (PairHasherIterator / MultiHashIterator) *)
(* that expands two u64 digests into an unbounded sequence.                *)
(*                                                                         *)
(* A u64 is a tuple of four 16-bit limbs, least significant first, so that *)
(* every addition, rotation and xor is computed at its full 64-bit width.  *)
(***************************************************************************)
EXTENDS Integers, Sequences, FiniteSets, TLC

(***************************************************************************)
(* State                                                                   *)
(***************************************************************************)

VARIABLES
    overflow_checks,  \* the build profile: TRUE when `+` overflow panics
    kind,             \* which iterator type is being driven
    seeds,            \* the (a0, b0) the iterator was constructed from
    iter,             \* the iterator's registers a, b, c
    take_n,           \* Take::n, the number of elements Take may still yield
    collected,        \* the items returned so far (the Vec being collected)
    draws,            \* the number of next() calls made on the iterator
    pc,               \* "running", "done" (the adapter returned None), "panicked"
    builders,         \* the BuildPairHasher factories
    slots             \* the caller's variables: each holds nothing, a PairHasher
                      \* (with the bytes written to it, the number of write calls
                      \* and what finish() returned since the last write), or the
                      \* iterator finish_iter returned (with the items it yielded)

vars == <<overflow_checks, kind, seeds, iter, take_n, collected, draws, pc,
          builders, slots>>

iterVars == <<kind, seeds, iter, take_n, collected, draws, pc>>

\* u64: the width of every hash value and of the iterator's registers.
WordBits == 64

LimbBase == 2^16

LimbIdx == 1..(WordBits \div 16)

\* A small natural (below 2^31) as a u64.
U(n) == <<n % LimbBase, (n \div LimbBase) % LimbBase, 0, 0>>

Zero64 == U(0)

\* u64::MAX
Max64 == [i \in LimbIdx |-> LimbBase - 1]

\* The carries of x + y, limb by limb: CarryInto(x, y, i) is the carry into
\* limb i, and CarryInto(x, y, 5) the carry out of the 64-bit word.
RECURSIVE CarryInto(_, _, _)
CarryInto(x, y, i) ==
    IF i = 1 THEN 0
    ELSE (x[i - 1] + y[i - 1] + CarryInto(x, y, i - 1)) \div LimbBase

\* u64::overflowing_add: the wrapped sum and whether the true sum left u64.
\* (The operands are bound once, as xv and yv, and not evaluated per limb.)
OverflowingAdd(x, y) ==
    CHOOSE r \in
        { [sum |-> [i \in LimbIdx |-> (xv[i] + yv[i] + CarryInto(xv, yv, i)) % LimbBase],
           overflow |-> CarryInto(xv, yv, Len(xv) + 1) = 1] : xv \in {x}, yv \in {y} } : TRUE

\* u64::wrapping_add
WrappingAdd(x, y) == OverflowingAdd(x, y).sum

\* u64::wrapping_neg and u64::wrapping_sub (two's complement).
WrappingNeg(x) ==
    CHOOSE r \in
        { WrappingAdd([i \in LimbIdx |-> LimbBase - 1 - xv[i]], U(1)) : xv \in {x} } : TRUE

WrappingSub(x, y) == WrappingAdd(x, WrappingNeg(y))

\* n * x modulo 2^64 for a natural n, by doubling and wrapping addition.
RECURSIVE WrappingMulSmall(_, _)
WrappingMulSmall(n, x) ==
    IF n = 0 THEN Zero64
    ELSE CHOOSE r \in
        { IF n % 2 = 1 THEN WrappingAdd(WrappingAdd(h, h), xv) ELSE WrappingAdd(h, h) :
            h \in {WrappingMulSmall(n \div 2, x)}, xv \in {x} } : TRUE

Min(m, n) == IF m <= n THEN m ELSE n

\* 2^i modulo 2^64.
Pow2Mod(i) ==
    [k \in LimbIdx |-> IF i < WordBits /\ (i \div 16) + 1 = k THEN 2^(i % 16) ELSE 0]

(***************************************************************************)
(* Bitwise operations on u64                                               *)
(***************************************************************************)

RECURSIVE XorBits(_, _, _)
XorBits(p, q, n) ==
    IF n = 0 THEN 0
    ELSE ((p + q) % 2) + 2 * XorBits(p \div 2, q \div 2, n - 1)

RECURSIVE OrBits(_, _, _)
OrBits(p, q, n) ==
    IF n = 0 THEN 0
    ELSE (IF p % 2 = 1 \/ q % 2 = 1 THEN 1 ELSE 0) + 2 * OrBits(p \div 2, q \div 2, n - 1)

\* Xor and or of two 4-bit values, tabulated.
NibbleXor == [p \in 0..15, q \in 0..15 |-> XorBits(p, q, 4)]

NibbleOr == [p \in 0..15, q \in 0..15 |-> OrBits(p, q, 4)]

\* A 16-bit limb combined nibble by nibble through table T.
LimbOp(T, p, q) ==
      T[p % 16, q % 16]
    + 16 * T[(p \div 16) % 16, (q \div 16) % 16]
    + 256 * T[(p \div 256) % 16, (q \div 256) % 16]
    + 4096 * T[p \div 4096, q \div 4096]

\* x ^ y and x | y on u64.
Xor64(x, y) ==
    CHOOSE r \in { [i \in LimbIdx |-> LimbOp(NibbleXor, xv[i], yv[i])] :
                     xv \in {x}, yv \in {y} } : TRUE

Or64(x, y) ==
    CHOOSE r \in { [i \in LimbIdx |-> LimbOp(NibbleOr, xv[i], yv[i])] :
                     xv \in {x}, yv \in {y} } : TRUE

\* Limb i of a u64 shifted left by n bits, where lo and hi are the source
\* limbs that supply its low and its high bits.
ShiftedLimb(hi, lo, n) ==
    LET r == n % 16
    IN  (hi % 2^(16 - r)) * 2^r + (lo \div 2^(16 - r))

\* u64::rotate_left: the source limbs wrap around.
Rotl64(x, n) ==
    CHOOSE r \in { [i \in LimbIdx |->
                      ShiftedLimb(xv[((i - (n \div 16) - 1) % 4) + 1],
                                  xv[((i - (n \div 16) - 2) % 4) + 1], n)] :
                     xv \in {x} } : TRUE

\* x << n on u64 (n < 64): the bits shifted out are lost, zeros come in.
Shl64(x, n) ==
    CHOOSE r \in { [i \in LimbIdx |->
                      ShiftedLimb(IF i - (n \div 16) >= 1 THEN xv[i - (n \div 16)] ELSE 0,
                                  IF i - (n \div 16) - 1 >= 1 THEN xv[i - (n \div 16) - 1] ELSE 0,
                                  n)] :
                     xv \in {x} } : TRUE

\* The u64 whose little-endian bytes are buf[start .. start + len) (start is
\* 0-based, len <= 8); the bytes beyond len are zero.
LoadLE(buf, start, len) ==
    LET Byte(j) == IF j < len THEN buf[start + j + 1] ELSE 0
    IN  [i \in LimbIdx |-> Byte(2 * i - 2) + 256 * Byte(2 * i - 1)]

\* A u64 from its hexadecimal limbs, most significant first.
Hex64(l3, l2, l1, l0) == <<l0, l1, l2, l3>>

(***************************************************************************)
(* SipHasher (SipHash-2-4), the keyed accumulator BuildSipHasher builds    *)
(***************************************************************************)

\* One SipRound on the state <<v0, v1, v2, v3>>.
SipRound(v) ==
    CHOOSE r \in
      { LET a0 == WrappingAdd(w[1], w[2])
            a1 == Xor64(Rotl64(w[2], 13), a0)
            a0r == Rotl64(a0, 32)
            a2 == WrappingAdd(w[3], w[4])
            a3 == Xor64(Rotl64(w[4], 16), a2)
        IN  CHOOSE res \in
              { LET c0 == WrappingAdd(u[1], u[4])
                    c3 == Xor64(Rotl64(u[4], 21), c0)
                    c2 == WrappingAdd(u[3], u[2])
                    c1 == Xor64(Rotl64(u[2], 17), c2)
                IN  <<c0, c1, Rotl64(c2, 32), c3>> : u \in {<<a0r, a1, a2, a3>>} } : TRUE
        : w \in {v} } : TRUE

RECURSIVE SipRounds(_, _)
SipRounds(v, n) == IF n = 0 THEN v ELSE SipRounds(SipRound(v), n - 1)

\* The c_rounds (2) and d_rounds (4) of SipHash-2-4.
CRounds == 2

DRounds == 4

\* Absorbing one 64-bit word m: v3 ^= m; c_rounds; v0 ^= m.
SipAbsorb(v, m) ==
    CHOOSE r \in
      { CHOOSE res \in { <<Xor64(u[1], mv), u[2], u[3], u[4]>> :
                           u \in {SipRounds(<<vv[1], vv[2], vv[3], Xor64(vv[4], mv)>>,
                                            CRounds)} } : TRUE
        : vv \in {v}, mv \in {m} } : TRUE

\* SipHasher::new_with_keys: the state is the four constants xored with the
\* keys; nothing is buffered.
SipHasherNewWithKeys(key0, key1) ==
    [k0 |-> key0, k1 |-> key1, length |-> 0,
     v |-> << Xor64(key0, Hex64(29551, 28005, 28787, 25973)),
              Xor64(key1, Hex64(25711, 29281, 28260, 28525)),
              Xor64(key0, Hex64(27769, 26469, 28261, 29281)),
              Xor64(key1, Hex64(29797, 25698, 31092, 25971)) >>,
     tail |-> Zero64, ntail |-> 0]

\* The whole 8-byte words of msg from offset i up to (not including) end.
RECURSIVE SipBlocks(_, _, _, _)
SipBlocks(v, msg, i, end) ==
    IF i < end THEN SipBlocks(SipAbsorb(v, LoadLE(msg, i, 8)), msg, i + 8, end)
    ELSE v

\* <SipHasher as Hasher>::write on hasher state h (a value): completes the
\* buffered tail first, absorbs every whole word, and buffers what is left.
SipWriteValue(h, msg) ==
    LET length == Len(msg)
        needed == IF h.ntail # 0 THEN 8 - h.ntail ELSE 0
        tail1  == IF h.ntail # 0
                  THEN Or64(h.tail, Shl64(LoadLE(msg, 0, Min(length, needed)), 8 * h.ntail))
                  ELSE h.tail
    IN  IF h.ntail # 0 /\ length < needed
        THEN [h EXCEPT !.length = h.length + length, !.tail = tail1,
                       !.ntail = h.ntail + length]
        ELSE LET v1   == IF h.ntail # 0 THEN SipAbsorb(h.v, tail1) ELSE h.v
                 len  == length - needed
                 left == len % 8
                 i    == needed
                 \* the loop `while i < len - left` runs once per whole word
                 stop == needed + 8 * ((len - left) \div 8)
             IN  [h EXCEPT !.length = h.length + length,
                           !.v = SipBlocks(v1, msg, i, stop),
                           !.tail = LoadLE(msg, stop, left),
                           !.ntail = left]

SipHasherWrite(h, msg) ==
    CHOOSE r \in { SipWriteValue(hv, mv) : hv \in {h}, mv \in {msg} } : TRUE

\* <SipHasher as Hasher>::finish: works on a copy of the state; the hasher is
\* not changed. b is the length's low byte above the buffered tail.
SipHasherFinish(h) ==
    CHOOSE r \in
      { CHOOSE res \in { Xor64(Xor64(d[1], d[2]), Xor64(d[3], d[4])) :
          d \in { CHOOSE dd \in
                    { SipRounds(<<w[1], w[2], Xor64(w[3], U(255)), w[4]>>, DRounds) :
                        w \in {SipAbsorb(hv.v, Or64(Shl64(U(hv.length % 256), 56), hv.tail))} }
                    : TRUE } } : TRUE
        : hv \in {h} } : TRUE

(***************************************************************************)
(* Hash64 (lib.rs) and Option                                              *)
(***************************************************************************)

\* Hash64::new: the tuple struct Hash64(u64).
Hash64New(value) == <<value>>

\* impl From<u64> for Hash64
Hash64From(value) == Hash64New(value)

\* impl From<Hash64> for u64: the wrapped integer, field 0 of the struct.
U64FromHash64(h) == h[1]

Some(x) == [some |-> TRUE, val |-> x]

None == [some |-> FALSE]

(***************************************************************************)
(* The hash-sequence iterators                                             *)
(***************************************************************************)

\* Mutant of PairHasherIterator::new: c starts at 1.
PairHasherIteratorNew_COne(a, b) == [a |-> a, b |-> b, c |-> U(1)]

\* PairHasherIterator::new: c is Default::default(), that is 0.
PairHasherIteratorNew(a, b) == [a |-> a, b |-> b, c |-> Zero64]

\* MultiHashIterator::new
MultiHashIteratorNew(a, b) == [a |-> a, b |-> b, c |-> Zero64]

\* Mutant of the update of c: `self.c += self.c + 1`, both additions ordinary.
AddAssignC_Plain(c, checks) ==
    LET inner == OverflowingAdd(c, U(1))
        r     == OverflowingAdd(c, inner.sum)
    IN  [c |-> r.sum, panicked |-> (inner.overflow \/ r.overflow) /\ checks]

\* The statement `self.c += self.c.wrapping_add(1)`: the inner addition wraps,
\* the outer `+=` is an ordinary addition. When the true sum leaves u64 a build
\* with overflow checks panics and a build without them wraps.
AddAssignC(c, checks) ==
    LET r == OverflowingAdd(c, WrappingAdd(c, U(1)))
    IN  [c |-> r.sum, panicked |-> r.overflow /\ checks]

\* Mutant of next(): b is updated before a, so a gets the new b.
PairHasherIteratorNext_BFirst(it, checks) ==
    LET ret == it.a
        b1  == WrappingAdd(it.b, it.c)
        a1  == WrappingAdd(it.a, b1)
        upd == AddAssignC(it.c, checks)
    IN  IF upd.panicked
        THEN [it |-> [a |-> a1, b |-> b1, c |-> it.c], ret |-> None, panicked |-> TRUE]
        ELSE [it |-> [a |-> a1, b |-> b1, c |-> upd.c],
              ret |-> Some(Hash64From(ret)), panicked |-> FALSE]

\* Mutant of next(): `self.a = self.a.checked_add(self.b)?`, which ends the
\* sequence when a + b leaves u64.
PairHasherIteratorNext_CheckedAdd(it, checks) ==
    LET ret == it.a
        s1  == OverflowingAdd(it.a, it.b)
        b1  == WrappingAdd(it.b, it.c)
        upd == AddAssignC(it.c, checks)
    IN  IF s1.overflow
        THEN [it |-> it, ret |-> None, panicked |-> FALSE]
        ELSE [it |-> [a |-> s1.sum, b |-> b1, c |-> upd.c],
              ret |-> Some(Hash64From(ret)), panicked |-> FALSE]

\* <PairHasherIterator as Iterator>::next. The result holds the iterator after
\* the call, the returned Option<Hash64>, and whether the call panicked (then
\* nothing is returned and c keeps its value).
PairHasherIteratorNext(it, checks) ==
    LET ret == it.a
        a1  == WrappingAdd(it.a, it.b)
        b1  == WrappingAdd(it.b, it.c)
        upd == AddAssignC(it.c, checks)
    IN  IF upd.panicked
        THEN [it |-> [a |-> a1, b |-> b1, c |-> it.c], ret |-> None, panicked |-> TRUE]
        ELSE [it |-> [a |-> a1, b |-> b1, c |-> upd.c],
              ret |-> Some(Hash64From(ret)), panicked |-> FALSE]

\* Mutant of next(): c is updated before b, so b gets the new c.
MultiHashIteratorNext_CFirst(it, checks) ==
    LET ret == it.a
        a1  == WrappingAdd(it.a, it.b)
        upd == AddAssignC(it.c, checks)
        b1  == WrappingAdd(it.b, upd.c)
    IN  [it |-> [a |-> a1, b |-> b1, c |-> upd.c], ret |-> Some(ret), panicked |-> FALSE]

\* <MultiHashIterator as Iterator>::next: the same recurrence, Item = u64.
MultiHashIteratorNext(it, checks) ==
    LET ret == it.a
        a1  == WrappingAdd(it.a, it.b)
        b1  == WrappingAdd(it.b, it.c)
        upd == AddAssignC(it.c, checks)
    IN  IF upd.panicked
        THEN [it |-> [a |-> a1, b |-> b1, c |-> it.c], ret |-> None, panicked |-> TRUE]
        ELSE [it |-> [a |-> a1, b |-> b1, c |-> upd.c],
              ret |-> Some(ret), panicked |-> FALSE]

IterKinds == {"PairHasherIterator", "MultiHashIterator"}

IterNew(type, a, b) ==
    IF type = "PairHasherIterator" THEN PairHasherIteratorNew(a, b)
    ELSE MultiHashIteratorNew(a, b)

IterNext(type, it, checks) ==
    IF type = "PairHasherIterator" THEN PairHasherIteratorNext(it, checks)
    ELSE MultiHashIteratorNext(it, checks)

\* The u64 carried by an item of either iterator.
ItemValue(type, item) ==
    IF type = "PairHasherIterator" THEN U64FromHash64(item) ELSE item

(***************************************************************************)
(* BuildSipHasher, PairHasher and BuildPairHasher                          *)
(***************************************************************************)

\* impl From<SipHasherKeys> for BuildSipHasher
BuildSipHasherFrom(keys) == [key0 |-> keys[1], key1 |-> keys[2]]

\* impl From<ThreadRng> for BuildSipHasher: key0 and key1 are the next two
\* values the generator yields.
BuildSipHasherFromRng(gen) ==
    LET key0 == gen[1]
        key1 == gen[2]
    IN  BuildSipHasherFrom(<<key0, key1>>)

\* <BuildSipHasher as BuildHasher>::build_hasher
BuildSipHasherBuildHasher(b) == SipHasherNewWithKeys(b.key0, b.key1)

\* PairHasher::new
PairHasherNew(hasher1, hasher2) == [hasher1 |-> hasher1, hasher2 |-> hasher2]

\* <PairHasher as Hasher>::finish: the wrapping sum of the two digests.
PairHasherFinish(h) ==
    LET a == SipHasherFinish(h.hasher1)
        b == SipHasherFinish(h.hasher2)
    IN  WrappingAdd(a, b)

\* Mutant of write: the slice reaches hasher1 only.
PairHasherWrite_FirstOnly(h, bytes) ==
    [hasher1 |-> SipHasherWrite(h.hasher1, bytes), hasher2 |-> h.hasher2]

\* <PairHasher as Hasher>::write: the same slice to both hashers.
PairHasherWrite(h, bytes) ==
    [hasher1 |-> SipHasherWrite(h.hasher1, bytes),
     hasher2 |-> SipHasherWrite(h.hasher2, bytes)]

\* Mutant of finish_iter: the first seed is self.finish(), the combined digest.
PairHasherFinishIter_FromFinish(h) ==
    LET b == SipHasherFinish(h.hasher2)
    IN  PairHasherIteratorNew(PairHasherFinish(h), b)

\* Mutant of finish_iter: the seeds are passed in the other order.
PairHasherFinishIter_Swapped(h) ==
    LET a == SipHasherFinish(h.hasher1)
        b == SipHasherFinish(h.hasher2)
    IN  PairHasherIteratorNew(b, a)

\* <PairHasher as HasherExt>::finish_iter
PairHasherFinishIter(h) ==
    LET a == SipHasherFinish(h.hasher1)
        b == SipHasherFinish(h.hasher2)
    IN  PairHasherIteratorNew(a, b)

\* BuildPairHasher::new
BuildPairHasherNew(builder1, builder2) == [builder1 |-> builder1, builder2 |-> builder2]

\* Mutant of new_with_keys: builder2 is made from keys1 as well.
BuildPairHasherNewWithKeys_Keys1Twice(keys1, keys2) ==
    LET builder1 == BuildSipHasherFrom(keys1)
        builder2 == BuildSipHasherFrom(keys1)
    IN  BuildPairHasherNew(builder1, builder2)

\* BuildPairHasher::new_with_keys
BuildPairHasherNewWithKeys(keys1, keys2) ==
    LET builder1 == BuildSipHasherFrom(keys1)
        builder2 == BuildSipHasherFrom(keys2)
    IN  BuildPairHasherNew(builder1, builder2)

\* BuildPairHasher::new_with_rng: rng.clone() is a second handle to the same
\* thread-local generator, so builder1 takes the next two values it yields
\* (gen[1], gen[2]) and builder2 the two after them (gen[3], gen[4]).
BuildPairHasherNewWithRng(gen) ==
    LET builder1 == BuildSipHasherFromRng(SubSeq(gen, 1, 2))
        builder2 == BuildSipHasherFromRng(SubSeq(gen, 3, 4))
    IN  BuildPairHasherNew(builder1, builder2)

\* Mutant of build_hasher: both hashers come from builder1.
BuildPairHasherBuildHasher_Builder1Twice(b) ==
    LET hasher1 == BuildSipHasherBuildHasher(b.builder1)
        hasher2 == BuildSipHasherBuildHasher(b.builder1)
    IN  PairHasherNew(hasher1, hasher2)

\* <BuildPairHasher as BuildHasher>::build_hasher
BuildPairHasherBuildHasher(b) ==
    LET hasher1 == BuildSipHasherBuildHasher(b.builder1)
        hasher2 == BuildSipHasherBuildHasher(b.builder2)
    IN  PairHasherNew(hasher1, hasher2)

\* <str as Hash>::hash on a PairHasher: Hasher::write_str writes the bytes and
\* then the byte 0xff, each through PairHasher::write (write_u8 is the default
\* method, write(&[i])).
StrHash(h, item) == PairHasherWrite(PairHasherWrite(h, item), <<255>>)

\* BuildHasherExt::hashes_one
HashesOne(b, item) ==
    LET hasher == BuildPairHasherBuildHasher(b)
    IN  PairHasherFinishIter(StrHash(hasher, item))

(***************************************************************************)
(* The iterator driven on its own                                          *)
(***************************************************************************)

\* The most draws made on one iterator; more than WordBits, so that c reaches
\* its last value.
MaxDraws == 66

\* The largest n given to take(n).
MaxTake == 12

\* Seeds the iterator is constructed from: small values, the values of the
\* worked example, and values next to the ends of u64.
SeedValues ==
    {U(0), U(1), U(2), U(3), U(5), Pow2Mod(63), WrappingSub(Max64, U(1)), Max64}

InitIter(n) ==
    /\ overflow_checks \in BOOLEAN
    /\ kind \in IterKinds
    /\ seeds \in SeedValues \X SeedValues
    /\ iter = IterNew(kind, seeds[1], seeds[2])
    /\ take_n = n
    /\ collected = <<>>
    /\ draws = 0
    /\ pc = "running"
    /\ builders = <<>>
    /\ slots = <<>>

\* One call of next() on the iterator itself.
CallNext ==
    /\ pc = "running"
    /\ draws < MaxDraws
    /\ LET r == IterNext(kind, iter, overflow_checks)
       IN  /\ iter' = r.it
           /\ draws' = draws + 1
           /\ collected' = IF r.ret.some THEN Append(collected, r.ret.val) ELSE collected
           /\ pc' = IF r.panicked THEN "panicked"
                    ELSE IF r.ret.some THEN "running" ELSE "done"
    /\ UNCHANGED <<overflow_checks, kind, seeds, take_n, builders, slots>>

\* One round of `iter.take(n).collect::<Vec<_>>()`: Take::next returns None
\* once n is 0 and otherwise decrements n and calls the iterator; collect
\* pushes every Some and stops at the first None.
TakeCollect ==
    /\ pc = "running"
    /\ IF take_n = 0
       THEN /\ pc' = "done"
            /\ UNCHANGED <<iter, take_n, collected, draws>>
       ELSE LET r == IterNext(kind, iter, overflow_checks)
            IN  /\ take_n' = take_n - 1
                /\ iter' = r.it
                /\ draws' = draws + 1
                /\ collected' = IF r.ret.some THEN Append(collected, r.ret.val)
                                ELSE collected
                /\ pc' = IF r.panicked THEN "panicked"
                         ELSE IF r.ret.some THEN "running" ELSE "done"
    /\ UNCHANGED <<overflow_checks, kind, seeds, builders, slots>>

\* The iterator driven directly, from any seeds.
SpecIter == InitIter(0) /\ [][CallNext]_vars

\* take(n).collect() for every n up to MaxTake.
InitTake == \E n \in 0..MaxTake : InitIter(n)

SpecTake == InitTake /\ [][TakeCollect]_vars

(***************************************************************************)
(* Factories, accumulators and their iterators                             *)
(***************************************************************************)

\* The most write() calls made on one accumulator, and the most next() calls
\* on one iterator obtained from finish_iter.
MaxWrites == 2

MaxPairDraws == 2

\* The key pairs of the crate's examples and tests.
Keys00 == <<U(0), U(0)>>

Keys11 == <<U(1), U(1)>>

\* "Hello world!", "Hello ", "a", "b", "ab" as bytes.
HelloWorld == <<72, 101, 108, 108, 111, 32, 119, 111, 114, 108, 100, 33>>

Hello == SubSeq(HelloWorld, 1, 6)

\* A variable that holds nothing (never assigned, or dropped). The fields
\* hasher and it are None or Some(value); a hasher moved into finish_iter
\* leaves None behind.
Absent ==
    [st |-> "absent", from |-> 0, via |-> "", hasher |-> None, written |-> <<>>,
     writes |-> 0, last |-> None, it |-> None, out |-> <<>>]

InitPairWorld(bs, n) ==
    /\ overflow_checks \in BOOLEAN
    /\ kind = "PairHasherIterator"
    /\ seeds = <<Zero64, Zero64>>
    /\ iter = IterNew(kind, seeds[1], seeds[2])
    /\ take_n = 0
    /\ collected = <<>>
    /\ draws = 0
    /\ pc = "idle"
    /\ builders = bs
    /\ slots = [i \in 1..n |-> Absent]

\* let mut hasher = builders[f].build_hasher();
BuildHasher(f, i) ==
    /\ slots[i].st = "absent"
    /\ slots' = [slots EXCEPT ![i] =
                   [Absent EXCEPT !.st = "hasher", !.from = f, !.via = "build_hasher",
                                  !.hasher = Some(BuildPairHasherBuildHasher(builders[f]))]]
    /\ UNCHANGED <<overflow_checks, iterVars, builders>>

\* hasher.write(bytes)
Write(i, bytes, maxWrites) ==
    /\ slots[i].st = "hasher"
    /\ slots[i].writes < maxWrites
    /\ slots' = [slots EXCEPT ![i].hasher = Some(PairHasherWrite(@.val, bytes)),
                              ![i].written = @ \o bytes,
                              ![i].writes = @ + 1,
                              ![i].last = None]
    /\ UNCHANGED <<overflow_checks, iterVars, builders>>

\* let hash = hasher.finish();  (finish takes &self)
Finish(i) ==
    /\ slots[i].st = "hasher"
    /\ slots' = [slots EXCEPT ![i].last = Some(PairHasherFinish(slots[i].hasher.val))]
    /\ UNCHANGED <<overflow_checks, iterVars, builders>>

\* let hashes = hasher.finish_iter();  (finish_iter takes self: the hasher is
\* moved into the call and gone afterwards)
FinishIter(i) ==
    /\ slots[i].st = "hasher"
    /\ slots' = [slots EXCEPT ![i].st = "iter",
                              ![i].it = Some(PairHasherFinishIter(slots[i].hasher.val)),
                              ![i].hasher = None]
    /\ UNCHANGED <<overflow_checks, iterVars, builders>>

\* let hashes = builders[f].hashes_one(item);
CallHashesOne(f, i, item) ==
    /\ slots[i].st = "absent"
    /\ slots' = [slots EXCEPT ![i] =
                   [Absent EXCEPT !.st = "iter", !.from = f, !.via = "hashes_one",
                                  !.written = item \o <<255>>,
                                  !.writes = 2,
                                  !.it = Some(HashesOne(builders[f], item))]]
    /\ UNCHANGED <<overflow_checks, iterVars, builders>>

\* hashes.next()
Next(i, maxDraws) ==
    /\ slots[i].st = "iter"
    /\ Len(slots[i].out) < maxDraws
    /\ LET r == PairHasherIteratorNext(slots[i].it.val, overflow_checks)
       IN  slots' = [slots EXCEPT ![i].it = Some(r.it),
                                  ![i].out = IF r.ret.some THEN Append(@, r.ret.val) ELSE @,
                                  ![i].st = IF r.panicked THEN "panicked"
                                            ELSE IF r.ret.some THEN "iter" ELSE "ended"]
    /\ UNCHANGED <<overflow_checks, iterVars, builders>>

\* The variable goes out of scope.
Drop(i) ==
    /\ slots[i].st # "absent"
    /\ slots' = [slots EXCEPT ![i] = Absent]
    /\ UNCHANGED <<overflow_checks, iterVars, builders>>

\* One factory and one accumulator, fed in every way the chunks allow.
PairChunks == {<<>>, <<97>>, <<98>>, <<97, 98>>, Hello, HelloWorld, <<255>>}

PairItems == {<<97, 98>>, HelloWorld}

InitPair ==
    \E ks \in {<<Keys00, Keys11>>, <<Keys11, Keys00>>} :
        InitPairWorld(<<BuildPairHasherNewWithKeys(ks[1], ks[2])>>, 1)

NextPair ==
    \/ \E i \in DOMAIN slots, f \in DOMAIN builders : BuildHasher(f, i)
    \/ \E i \in DOMAIN slots, bytes \in PairChunks : Write(i, bytes, MaxWrites)
    \/ \E i \in DOMAIN slots : Finish(i)
    \/ \E i \in DOMAIN slots : FinishIter(i)
    \/ \E i \in DOMAIN slots, f \in DOMAIN builders, item \in PairItems :
          CallHashesOne(f, i, item)
    \/ \E i \in DOMAIN slots : Next(i, MaxPairDraws)
    \/ \E i \in DOMAIN slots : Drop(i)

SpecPair == InitPair /\ [][NextPair]_vars

\* Two factories and two accumulators, interleaved.
MaxFactoryWrites == 1

MaxFactoryDraws == 2

FactoryChunks == {<<97>>}

FactoryItems == {<<97>>, <<98>>}

InitFactory ==
    \E ks \in {<<Keys00, Keys11>>, <<Keys11, Keys00>>} :
        InitPairWorld(<<BuildPairHasherNewWithKeys(Keys00, Keys11),
                        BuildPairHasherNewWithKeys(ks[1], ks[2])>>, 2)

NextFactory ==
    \/ \E i \in DOMAIN slots, f \in DOMAIN builders : BuildHasher(f, i)
    \/ \E i \in DOMAIN slots, bytes \in FactoryChunks : Write(i, bytes, MaxFactoryWrites)
    \/ \E i \in DOMAIN slots : Finish(i)
    \/ \E i \in DOMAIN slots : FinishIter(i)
    \/ \E i \in DOMAIN slots, f \in DOMAIN builders, item \in FactoryItems :
          CallHashesOne(f, i, item)
    \/ \E i \in DOMAIN slots : Next(i, MaxFactoryDraws)
    \/ \E i \in DOMAIN slots : Drop(i)

SpecFactory == InitFactory /\ [][NextFactory]_vars

\* Four factories made in the three ways the crate offers, and two callers
\* that take sequences from them with hashes_one.
\*   1: BuildPairHasher::new_with_keys((0, 0), (1, 1))
\*   2: BuildPairHasher::new(BuildSipHasher::from((0, 0)), BuildSipHasher::from((1, 1)))
\*   3: BuildPairHasher::new_with_keys((1, 1), (0, 0))
\*   4: BuildPairHasher::new_with_rng(rng)
\* BuiltFromKeys[f] is the two key pairs factory f was built from, as the
\* caller wrote them; factory 4 was built from no key pair.
BuiltFromKeys ==
    << <<Keys00, Keys11>>, <<Keys00, Keys11>>, <<Keys11, Keys00>> >>

\* What the thread's generator may yield to the four gen() calls of
\* new_with_rng: the keys of factory 1 by chance, or others.
RngDraws == { <<U(0), U(0), U(1), U(1)>>, <<U(5), Max64, U(3), U(2)>> }

\* The most next() calls on one sequence.
MaxSequenceDraws == 4

SequenceItems == {<<97>>, HelloWorld}

InitDeterminism ==
    \E gen \in RngDraws :
        InitPairWorld(
            <<BuildPairHasherNewWithKeys(BuiltFromKeys[1][1], BuiltFromKeys[1][2]),
              BuildPairHasherNew(BuildSipHasherFrom(BuiltFromKeys[2][1]),
                                 BuildSipHasherFrom(BuiltFromKeys[2][2])),
              BuildPairHasherNewWithKeys(BuiltFromKeys[3][1], BuiltFromKeys[3][2]),
              BuildPairHasherNewWithRng(gen)>>, 2)

NextDeterminism ==
    \/ \E i \in DOMAIN slots, f \in DOMAIN builders : BuildHasher(f, i)
    \/ \E i \in DOMAIN slots, f \in DOMAIN builders, item \in SequenceItems :
          CallHashesOne(f, i, item)
    \/ \E i \in DOMAIN slots : Next(i, MaxSequenceDraws)
    \/ \E i \in DOMAIN slots : Drop(i)

SpecDeterminism == InitDeterminism /\ [][NextDeterminism]_vars

(***************************************************************************)
(* Properties of the iterator                                              *)
(***************************************************************************)

\* The u64 values collected so far, and the i-th of them (1-based).
Emitted == [i \in 1..Len(collected) |-> ItemValue(kind, collected[i])]

EmittedAt(i) == ItemValue(kind, collected[i])

\* (2c + 1) mod 2^64
TwicePlusOne(c) == WrappingAdd(WrappingAdd(c, c), U(1))

\* C1: an iterator built from (a0, b0) starts with a = a0, b = b0, c = 0; every
\* next() emits the current a and then sets a to a + b, b to b + c (the c from
\* before the call) and c to 2c + 1, all modulo 2^64; seeds (5, 3) emit
\* 5, 8, 11, 15 first.
C1_Recurrence ==
    /\ (iter = [a |-> seeds[1], b |-> seeds[2], c |-> Zero64])
    /\ [][/\ Emitted' = Append(Emitted, iter.a)
          /\ iter'.a = WrappingAdd(iter.a, iter.b)
          /\ iter'.b = WrappingAdd(iter.b, iter.c)
          /\ iter'.c = TwicePlusOne(iter.c)]_vars
    /\ [](seeds = <<U(5), U(3)>> /\ draws >= 4
            => SubSeq(Emitted, 1, 4) = <<U(5), U(8), U(11), U(15)>>)

C1_Witness ==
    /\ seeds = <<U(5), U(3)>>
    /\ kind = "PairHasherIterator"
    /\ draws = 4
    /\ Len(collected) = 4

\* C5: the sequence never ends: every next() returns an element, whatever the
\* seeds and however many draws were made, so take(n).collect() stops only
\* when Take has counted n down to 0 and then holds exactly n elements.
C5_NeverTerminates ==
    /\ pc # "panicked"
    /\ Len(collected) = draws
    /\ pc = "done" => take_n = 0

C5_Witness == pc = "done" /\ Len(collected) = 10 /\ seeds = <<Max64, Max64>>

\* C6: no step of next() fails: the ordinary addition in
\* `c += c.wrapping_add(1)` never leaves u64 in a reachable state, no call
\* panics under either build profile, and the update of c equals
\* (2c + 1) mod 2^64.
C6_NoFailureMode ==
    /\ [](pc # "panicked")
    /\ [](~OverflowingAdd(iter.c, WrappingAdd(iter.c, U(1))).overflow)
    /\ [][iter'.c = TwicePlusOne(iter.c)]_vars

C6_Witness == iter.c = Max64 /\ draws > WordBits + 1 /\ overflow_checks /\ pc = "running"

\* Whether the elements at positions lo..hi (1-based, within the first ten
\* draws) are pairwise distinct.
DistinctIn(lo, hi) ==
    \A i, j \in lo..hi : i < j /\ j <= Len(collected) => EmittedAt(i) # EmittedAt(j)

SmallNonZero == {U(1), U(2), U(3), U(5)}

\* C9 as stated: with b0 = 0 or a small b0 the elements of the first ten draws
\* are pairwise distinct, whatever a0.
C9_Original ==
    seeds[2] \in {Zero64} \cup SmallNonZero => DistinctIn(1, 10)

\* C9 amended: with a small non-zero b0 the elements of the first ten draws
\* are pairwise distinct; with b0 = 0 the first three elements all equal a0
\* and the elements of draws three to ten are pairwise distinct.
C9_SmallSeeds ==
    /\ seeds[2] \in SmallNonZero => DistinctIn(1, 10)
    /\ seeds[2] = Zero64 =>
         /\ \A i \in 1..3 : i <= Len(collected) => EmittedAt(i) = seeds[1]
         /\ DistinctIn(3, 10)

C9_Witness == seeds[2] = Zero64 /\ seeds[1] = Max64 /\ Len(collected) = 10

\* (a0 + i*b0 + 2^i - 1 - i(i+1)/2) mod 2^64
ClosedForm(a0, b0, i) ==
    WrappingSub(
        WrappingAdd(WrappingAdd(a0, WrappingMulSmall(i, b0)),
                    WrappingSub(Pow2Mod(i), U(1))),
        U((i * (i + 1)) \div 2))

\* C10: element i (0-based) equals (a0 + i*b0 + 2^i - 1 - i(i+1)/2) mod 2^64,
\* and after n draws c equals 2^min(n, 64) - 1: from the 64th draw on c stays
\* at 2^64 - 1.
C10_ClosedForm ==
    /\ \A i \in 1..Len(collected) :
         EmittedAt(i) = ClosedForm(seeds[1], seeds[2], i - 1)
    /\ iter.c = WrappingSub(Pow2Mod(Min(draws, WordBits)), U(1))

C10_Witness ==
    /\ draws = WordBits + 2
    /\ Len(collected) = draws
    /\ iter.c = Max64
    /\ seeds = <<Pow2Mod(63), Max64>>

(***************************************************************************)
(* Properties of one accumulator                                           *)
(***************************************************************************)

\* The hasher that BuildSipHasher b builds, after one write of a whole stream.
OneWrite(b, stream) == SipHasherWrite(BuildSipHasherBuildHasher(b), stream)

\* The digests of the two inner hashers over the bytes written in slot i, each
\* taken from a fresh hasher that was given the whole stream in one write.
Digest1(i) == SipHasherFinish(OneWrite(builders[slots[i].from].builder1, slots[i].written))

Digest2(i) == SipHasherFinish(OneWrite(builders[slots[i].from].builder2, slots[i].written))

\* C3: after any sequence of write calls both inner hashers have consumed the
\* concatenation of the slices, in call order, and finish() is the sum modulo
\* 2^64 of their digests over that stream: the way the bytes were split into
\* calls does not matter.
C3_WriteForwarding ==
    \A i \in DOMAIN slots :
        slots[i].st = "hasher" =>
            LET h  == slots[i].hasher.val
                b  == builders[slots[i].from]
            IN  /\ h.hasher1.length = Len(slots[i].written)
                /\ h.hasher2.length = Len(slots[i].written)
                /\ h.hasher1 = OneWrite(b.builder1, slots[i].written)
                /\ h.hasher2 = OneWrite(b.builder2, slots[i].written)
                /\ slots[i].last.some =>
                     slots[i].last.val = WrappingAdd(Digest1(i), Digest2(i))

C3_Witness ==
    \E i \in DOMAIN slots :
        /\ slots[i].st = "hasher"
        /\ slots[i].writes = 2
        /\ slots[i].written = Hello \o Hello
        /\ slots[i].last.some

\* C4: finish() leaves both inner hashers as they were, however often it is
\* called, and the iterator finish_iter() returns afterwards is the generator
\* seeded with (digest of hasher 1, digest of hasher 2): the same sequence as
\* without the finish() calls.
C4_FinishNonDestructive ==
    /\ [][\A i \in DOMAIN slots :
            (slots[i].st = "hasher" /\ slots'[i].st = "hasher"
               /\ slots'[i].writes = slots[i].writes)
            => slots'[i].hasher = slots[i].hasher]_vars
    /\ [](\A i \in DOMAIN slots :
            slots[i].st = "iter" =>
                LET n == Len(slots[i].out)
                IN  /\ \A k \in 1..n :
                          slots[i].out[k] =
                              Hash64New(ClosedForm(Digest1(i), Digest2(i), k - 1))
                    /\ slots[i].it.val.a = ClosedForm(Digest1(i), Digest2(i), n)
                    /\ n = 0 => slots[i].it.val = PairHasherIteratorNew(Digest1(i), Digest2(i)))

C4_Witness ==
    \E i \in DOMAIN slots :
        /\ slots[i].st = "iter"
        /\ slots[i].via = "build_hasher"
        /\ slots[i].last.some
        /\ slots[i].written = HelloWorld \o <<255>>
        /\ Len(slots[i].out) = 2

\* What a caller has observed of slot i: the scalar finish() returned and the
\* elements the iterator yielded.
Observed(i) ==
    {U64FromHash64(slots[i].out[k]) : k \in 1..Len(slots[i].out)}
        \cup (IF slots[i].last.some THEN {slots[i].last.val} ELSE {})

\* C8 as stated: no value a caller observes is one inner hasher's digest by
\* itself.
C8_Original ==
    \A i \in DOMAIN slots :
        slots[i].st \in {"hasher", "iter"} =>
            Digest1(i) \notin Observed(i) /\ Digest2(i) \notin Observed(i)

\* C8 amended: finish() returns only the sum of the two digests, but the
\* sequence exposes both: its first element is the digest of hasher 1 and its
\* second element minus its first is the digest of hasher 2.
C8_SequenceExposesDigests ==
    \A i \in DOMAIN slots :
        /\ (slots[i].st \in {"hasher", "iter"} /\ slots[i].last.some) =>
              slots[i].last.val = WrappingAdd(Digest1(i), Digest2(i))
        /\ (slots[i].st = "iter" /\ Len(slots[i].out) >= 1) =>
              U64FromHash64(slots[i].out[1]) = Digest1(i)
        /\ (slots[i].st = "iter" /\ Len(slots[i].out) >= 2) =>
              WrappingSub(U64FromHash64(slots[i].out[2]),
                          U64FromHash64(slots[i].out[1])) = Digest2(i)

C8_Witness ==
    \E i \in DOMAIN slots :
        /\ slots[i].st = "iter"
        /\ slots[i].last.some
        /\ Len(slots[i].out) = 2
        /\ slots[i].written = HelloWorld \o <<255>>

(***************************************************************************)
(* Properties of factories                                                 *)
(***************************************************************************)

\* Slot i holds the sequence of a hashes_one call.
Invocation(i) == slots[i].via = "hashes_one" /\ slots[i].st \in {"iter", "panicked", "ended"}

\* The first n elements of the sequence that two key pairs and a byte stream
\* determine: SipHash-2-4 of the stream under each key pair, expanded by the
\* closed form of the generator. Nothing of a factory enters it.
SequenceOf(keys1, keys2, stream, n) ==
    CHOOSE r \in { [k \in 1..n |-> Hash64New(ClosedForm(d1, d2, k - 1))] :
                     d1 \in {SipHasherFinish(SipHasherWrite(
                                 SipHasherNewWithKeys(keys1[1], keys1[2]), stream))},
                     d2 \in {SipHasherFinish(SipHasherWrite(
                                 SipHasherNewWithKeys(keys2[1], keys2[2]), stream))} } : TRUE

\* C2: the sequence hashes_one returns is a function of the two key pairs and
\* the value alone. Two invocations with the same value, on one factory or on
\* two factories built from the same two key pairs (by new_with_keys or by
\* new over two BuildSipHasher::from), agree element for element on every
\* prefix and leave iterators in the same state after equally many draws,
\* whatever the factories were used for before and in between; no invocation
\* ends or fails; and each sequence is the one its key pairs and the value's
\* bytes (followed by 0xff) determine.
C2_Determinism ==
    /\ \A i, j \in DOMAIN slots :
          (/\ Invocation(i) /\ Invocation(j)
           /\ slots[i].written = slots[j].written
           /\ \/ slots[i].from = slots[j].from
              \/ /\ slots[i].from \in DOMAIN BuiltFromKeys
                 /\ slots[j].from \in DOMAIN BuiltFromKeys
                 /\ BuiltFromKeys[slots[i].from] = BuiltFromKeys[slots[j].from])
          => /\ \A k \in 1..Min(Len(slots[i].out), Len(slots[j].out)) :
                   slots[i].out[k] = slots[j].out[k]
             /\ Len(slots[i].out) = Len(slots[j].out) => slots[i].it = slots[j].it
    /\ \A i \in DOMAIN slots :
          Invocation(i) =>
             /\ slots[i].st = "iter"
             /\ slots[i].from \in DOMAIN BuiltFromKeys =>
                    slots[i].out =
                        SequenceOf(BuiltFromKeys[slots[i].from][1],
                                   BuiltFromKeys[slots[i].from][2],
                                   slots[i].written, Len(slots[i].out))

\* Two invocations with "Hello world!", one on the factory from new_with_keys
\* and one on the factory from new over BuildSipHasher::from, the first drawn
\* to the bound and the second one draw behind.
C2_Witness ==
    /\ Invocation(1) /\ Invocation(2)
    /\ slots[1].from = 1 /\ slots[2].from = 2
    /\ slots[1].written = HelloWorld \o <<255>> /\ slots[2].written = slots[1].written
    /\ Len(slots[1].out) = MaxSequenceDraws
    /\ Len(slots[2].out) = MaxSequenceDraws - 1

\* The PairHasher a factory with these two builders must hand out: two hashers
\* new from its key pairs, nothing written.
FreshFrom(b) ==
    PairHasherNew(SipHasherNewWithKeys(b.builder1.key0, b.builder1.key1),
                  SipHasherNewWithKeys(b.builder2.key0, b.builder2.key1))

\* C7: a factory is stateless: no operation changes a factory; build_hasher
\* returns hashers new from the factory's two key pairs with nothing written;
\* a step on one accumulator changes no other; and every accumulator holds
\* what its own key pairs and its own writes make of it, whatever was built,
\* written or finished around it.
C7_StatelessFactory ==
    /\ [][builders' = builders]_vars
    /\ [][\A i, j \in DOMAIN slots :
            (i # j /\ slots'[i] # slots[i]) => slots'[j] = slots[j]]_vars
    /\ [](\A i \in DOMAIN slots :
            slots[i].st = "hasher" =>
                LET b == builders[slots[i].from]
                    h == slots[i].hasher.val
                IN  /\ slots[i].writes = 0 =>
                          /\ h = FreshFrom(b)
                          /\ h.hasher1.length = 0 /\ h.hasher1.ntail = 0
                          /\ h.hasher2.length = 0 /\ h.hasher2.ntail = 0
                    /\ h =
                          PairHasherNew(OneWrite(b.builder1, slots[i].written),
                                        OneWrite(b.builder2, slots[i].written)))

C7_Witness ==
    /\ slots[1].st = "hasher" /\ slots[2].st = "hasher"
    /\ slots[1].from = slots[2].from
    /\ slots[1].writes = 1 /\ slots[1].last.some
    /\ slots[2].writes = 0

====
